---------------------------- MODULE Spec2Model ----------------------------
(***************************************************************************)
(* The soil-moisture simulation of src/app/layout.tsx (component           *)
(* Simulation): a grid of cells evolving under irrigation,                 *)
(* evapotranspiration and diffusion, with manual overrides of single cells *)
(* and a bounded history of the selected cell.                             *)
(*                                                                         *)
(* Numbers.  Moisture, the two rates and the threshold are fixed-point     *)
(* integers in units of 1/One (One stands for the number 1.0, so with      *)
(* One = 20 the unit is 0.05).  diffusionCoefficient and timeStepSize are  *)
(* whole numbers.  With these inputs every product and sum the code forms  *)
(* is a whole number of units, so the arithmetic below is exact.           *)
(*                                                                         *)
(* Indices.  Rows and columns are numbered from 1 here and from 0 in the   *)
(* source: model index k is source index k-1.                              *)
(***************************************************************************)
EXTENDS Integers, Sequences, FiniteSets

VARIABLES
    searchParams,     \* useSearchParams(): rows, cols, initialMoisture, uniformMoisture
    grid,             \* useState<Cell[][]>
    isRunning,        \* useState(false)
    timeStep,         \* useState(0): the tick counter
    params,           \* useState<SimulationParams>
    timeStepSize,     \* useState(1)
    selectedCell,     \* useState<{row, col} | null>
    moistureHistory,  \* useState<{time, moisture}[]>
    showCellDetails,  \* useState(false): the Cell Details dialog is open
    moistureUnit,     \* useState('percentage')
    crashed,          \* an effect or handler threw: the component is gone
    stepsSinceClick   \* updateGrid calls since the last handleCellClick with no reset,
                      \* navigation or dialog control used in between, counted up to a
                      \* cap; -1 when there is no such click or nothing is counted

vars == <<searchParams, grid, isRunning, timeStep, params, timeStepSize,
          selectedCell, moistureHistory, showCellDetails, moistureUnit,
          crashed, stepsSinceClick>>

-----------------------------------------------------------------------------
(* Numbers of the program *)

\* The number 1.0 in moisture units: the upper clamp of Math.min(1, .).
One == 20

\* .slice(-20): the history keeps the 20 most recent samples.
HistoryLimit == 20

\* selectedCell = null
NoCell == [row |-> 0, col |-> 0]

Max(a, b) == IF a >= b THEN a ELSE b
Min(a, b) == IF a <= b THEN a ELSE b

\* A step that does not clamp its result
ClampMissing(x) == x

\* Math.max(0, Math.min(1, x))
Clamp(x) == Max(0, Min(One, x))

-----------------------------------------------------------------------------
(* initializeGrid *)

\* parseFloat(uniformMoisture) / 100, for a percentage that is a multiple of 5
PercentToMoisture(p) == (p * One) \div 100

\* rows x cols fresh cells; rnd[i][j] is the value Math.random() returns for cell (i,j)
initializeGrid(sp, rnd) ==
    [i \in 1..sp.rows |->
        [j \in 1..sp.cols |->
            [moisture    |-> IF sp.initialMoisture = "uniform"
                             THEN PercentToMoisture(sp.uniformMoisture)
                             ELSE rnd[i][j],
             tapStatus   |-> FALSE,
             overrideTap |-> FALSE]]]

\* The draws initializeGrid may make: none that matter in uniform mode.
RandomDraws(sp, values) ==
    IF sp.initialMoisture = "uniform"
    THEN {[i \in 1..sp.rows |-> [j \in 1..sp.cols |-> 0]]}
    ELSE [1..sp.rows -> [1..sp.cols -> values]]

-----------------------------------------------------------------------------
(* updateGrid: the updater handed to setGrid *)

\* A grid that wraps around: the position past an edge is the opposite edge
AtWrapped(g, i, j) ==
    IF i \in DOMAIN g
    THEN << <<i, ((j - 1) % Len(g[i])) + 1>> >>
    ELSE << <<((i - 1) % Len(g)) + 1, j>> >>

\* g[i]?.[j] : the one-element sequence of the position when it indexes a cell,
\* the empty sequence when the lookup yields undefined
At(g, i, j) ==
    IF i \in DOMAIN g /\ j \in DOMAIN g[i] THEN << <<i, j>> >> ELSE << >>

\* [prevGrid[i-1]?.[j], prevGrid[i+1]?.[j], prevGrid[i][j-1], prevGrid[i][j+1]]
\*   .filter(Boolean), as positions
neighbors(g, i, j) ==
    At(g, i - 1, j) \o At(g, i + 1, j) \o At(g, i, j - 1) \o At(g, i, j + 1)

RECURSIVE SumDiff(_, _, _, _)
\* neighbors.forEach(n => deltaMoisture += D * (n.moisture - prevGrid[i][j].moisture))
SumDiff(g, ns, own, D) ==
    IF ns = << >> THEN 0
    ELSE D * (g[Head(ns)[1]][Head(ns)[2]].moisture - own) + SumDiff(g, Tail(ns), own, D)

\* A tap decision that opens the tap at the threshold as well as below it
TapDecisionAtThreshold(c, p) ==
    IF c.overrideTap THEN c.tapStatus ELSE c.moisture <= p.moistureThreshold

\* A tap decision that applies the threshold rule to overridden cells too
TapDecisionIgnoringOverride(c, p) == c.moisture < p.moistureThreshold

\* The tap decision of lines 149-151
TapDecision(c, p) ==
    IF ~c.overrideTap THEN c.moisture < p.moistureThreshold ELSE c.tapStatus

\* The local flux of lines 153-157
LocalFlux(tap, p, dt) ==
    IF tap THEN p.irrigationRate * dt ELSE -(p.evapotranspirationRate * dt)

\* One pass of the loop body for cell (i,j).  h is the state of the cell objects:
\* newGrid = prevGrid.map(row => [...row]) copies the row arrays only, so
\* newGrid[i][j] and prevGrid[i][j] are one object and every write through
\* newGrid is read back through prevGrid.
StepCell(h, i, j, p, dt) ==
    LET c   == h[i][j]
        tap == TapDecision(c, p)
        m1  == c.moisture + LocalFlux(tap, p, dt)
        h1  == [h EXCEPT ![i][j] = [c EXCEPT !.tapStatus = tap, !.moisture = m1]]
        deltaMoisture == SumDiff(h1, neighbors(h1, i, j), h1[i][j].moisture,
                                 p.diffusionCoefficient)
        m2  == m1 + deltaMoisture * dt
    IN  [h1 EXCEPT ![i][j].moisture = Clamp(m2)]

\* A loop over the rows that returns the grid without its last row
StepFromDroppingRow(h, i, j, p, dt) == SubSeq(h, 1, Len(h) - 1)

RECURSIVE StepFrom(_, _, _, _, _)
\* for i ... for j ... in row-major order
StepFrom(h, i, j, p, dt) ==
    IF i > Len(h) THEN h
    ELSE IF j > Len(h[i]) THEN StepFrom(h, i + 1, 1, p, dt)
    ELSE StepFrom(StepCell(h, i, j, p, dt), i, j + 1, p, dt)

\* The updater: what it returns, and what the array it was given reads afterwards
updateGridUpdater(g, p, dt) ==
    LET h == StepFrom(g, 1, 1, p, dt)
    IN  [newGrid |-> h, prevGrid |-> h]

-----------------------------------------------------------------------------
(* The history effect, lines 181-189 *)

\* No slice: a history that keeps every sample
SliceNone(s, n) == s

\* x.slice(0, n): a history that keeps its oldest samples
SliceFirst(s, n) == SubSeq(s, 1, Min(n, Len(s)))

\* x.slice(-n)
SliceLast(s, n) ==
    IF Len(s) <= n THEN s ELSE SubSeq(s, Len(s) - n + 1, Len(s))

\* The effect reads grid[row][col].moisture
EffectRuns(sel, g) == sel # NoCell /\ Len(g) > 0

\* grid[row] or grid[row][col] is undefined: the read throws a TypeError
EffectThrows(sel, g) ==
    EffectRuns(sel, g) /\ ~(sel.row \in DOMAIN g /\ sel.col \in DOMAIN g[sel.row])

\* limit is the 20 of .slice(-20)
historyEffect(sel, g, t, hist, limit) ==
    IF EffectRuns(sel, g) /\ ~EffectThrows(sel, g)
    THEN SliceLast(Append(hist, [time |-> t, moisture |-> g[sel.row][sel.col].moisture]),
                   limit)
    ELSE hist


-----------------------------------------------------------------------------
(* The state after the component has mounted and its first effects have run *)

\* Array(rows) and Array(cols) throw a RangeError for a negative length
InitThrows(sp) == sp.rows < 0 \/ (sp.rows > 0 /\ sp.cols < 0)

TypeOK ==
    /\ isRunning \in BOOLEAN
    /\ showCellDetails \in BOOLEAN
    /\ crashed \in BOOLEAN
    /\ timeStep \in Nat
    /\ timeStepSize \in Nat
    /\ moistureUnit \in {"percentage", "volumetric"}
    /\ Len(moistureHistory) <= HistoryLimit

InitWith(searches, randomValues, paramChoices, stepSizes) ==
    /\ searchParams \in searches
    /\ \E rnd \in RandomDraws(searchParams, randomValues) :
          grid = initializeGrid(searchParams, rnd)
    /\ isRunning = FALSE
    /\ timeStep = 0
    /\ params \in paramChoices
    /\ timeStepSize \in stepSizes
    /\ selectedCell = NoCell
    /\ moistureHistory = << >>
    /\ showCellDetails = FALSE
    /\ moistureUnit = "percentage"
    /\ crashed = FALSE
    /\ stepsSinceClick = -1

-----------------------------------------------------------------------------
(* Operations.  Each is the whole handler together with the effects React   *)
(* runs after the render it causes: the history effect runs whenever        *)
(* selectedCell, timeStep or grid is a new value.                           *)

\* The render after a change of grid, timeStep or selectedCell, and its effect
Rendered(hist, limit) ==
    /\ crashed' = EffectThrows(selectedCell', grid')
    /\ moistureHistory' = historyEffect(selectedCell', grid', timeStep', hist, limit)

\* updateGrid, lines 144-179
updateGrid(countCap, limit) ==
    LET u == updateGridUpdater(grid, params, timeStepSize)
    IN  /\ grid' = u.newGrid
        /\ timeStep' = timeStep + 1
        /\ stepsSinceClick' = IF stepsSinceClick < 0 THEN -1
                              ELSE Min(stepsSinceClick + 1, countCap)
        /\ UNCHANGED <<searchParams, isRunning, params, timeStepSize, selectedCell,
                       showCellDetails, moistureUnit>>
        /\ Rendered(moistureHistory, limit)

\* The Step Forward button, line 372: disabled while running
StepForward(maxTick, countCap, limit) ==
    /\ ~crashed /\ ~isRunning /\ timeStep < maxTick
    /\ updateGrid(countCap, limit)

\* A timer that is never cleared: it ticks whether running or paused
TimerTickAlways(maxTick, countCap, limit) ==
    /\ ~crashed /\ timeStep < maxTick
    /\ updateGrid(countCap, limit)

\* setInterval(updateGrid, 1000), lines 191-201: only while running
TimerTick(maxTick, countCap, limit) ==
    /\ ~crashed /\ isRunning /\ timeStep < maxTick
    /\ updateGrid(countCap, limit)

\* toggleSimulation, line 203
toggleSimulation ==
    /\ ~crashed
    /\ isRunning' = ~isRunning
    /\ UNCHANGED <<searchParams, grid, timeStep, params, timeStepSize, selectedCell,
                   moistureHistory, showCellDetails, moistureUnit, crashed, stepsSinceClick>>

\* resetSimulation, lines 205-210
resetSimulation(randomValues, limit) ==
    /\ ~crashed
    /\ isRunning' = FALSE
    /\ timeStep' = 0
    /\ stepsSinceClick' = -1
    /\ UNCHANGED <<searchParams, params, timeStepSize, selectedCell,
                   showCellDetails, moistureUnit>>
    /\ IF InitThrows(searchParams)
       THEN /\ crashed' = TRUE
            /\ UNCHANGED <<grid, moistureHistory>>
       ELSE /\ \E rnd \in RandomDraws(searchParams, randomValues) :
                  grid' = initializeGrid(searchParams, rnd)
            /\ Rendered(<< >>, limit)

\* handleCellClick, lines 212-215, from a rendered cell (line 347)
handleCellClick(row, col, countCap, limit) ==
    /\ ~crashed
    /\ row \in DOMAIN grid /\ col \in DOMAIN grid[row]
    /\ selectedCell' = [row |-> row, col |-> col]
    /\ showCellDetails' = TRUE
    /\ stepsSinceClick' = Min(0, countCap)
    /\ UNCHANGED <<searchParams, grid, isRunning, timeStep, params, timeStepSize,
                   moistureUnit>>
    /\ Rendered(moistureHistory, limit)

\* onOpenChange of the dialog, line 506
closeCellDetails ==
    /\ ~crashed /\ showCellDetails
    /\ showCellDetails' = FALSE
    /\ UNCHANGED <<searchParams, grid, isRunning, timeStep, params, timeStepSize,
                   selectedCell, moistureHistory, moistureUnit, crashed, stepsSinceClick>>

\* A dialog that shows its controls for any selection, in the grid or not
DetailsShownUnguarded == showCellDetails /\ selectedCell # NoCell

\* The dialog shows its controls, line 511
DetailsShown ==
    /\ showCellDetails /\ selectedCell # NoCell
    /\ selectedCell.row \in DOMAIN grid
    /\ selectedCell.col \in DOMAIN grid[selectedCell.row]

\* The three handlers of the dialog replace the selected cell by a changed copy.
\* [...newGrid[selectedCell.row]] throws a TypeError when the grid has no such
\* row (a selection whose row exists and whose column does not is ended by the
\* history effect before a handler can run).
ReplaceSelected(cell, limit) ==
    IF selectedCell.row \notin DOMAIN grid
    THEN /\ crashed' = TRUE
         /\ UNCHANGED <<searchParams, grid, isRunning, timeStep, params, timeStepSize,
                        selectedCell, moistureHistory, showCellDetails, moistureUnit,
                        stepsSinceClick>>
    ELSE /\ grid' = [grid EXCEPT ![selectedCell.row][selectedCell.col] = cell]
         /\ stepsSinceClick' = -1
         /\ UNCHANGED <<searchParams, isRunning, timeStep, params, timeStepSize,
                        selectedCell, showCellDetails, moistureUnit>>
         /\ Rendered(moistureHistory, limit)

\* What parseFloat(e.target.value) yields: a number, or NaN for a text it cannot read
Typed(n) == [isNaN |-> FALSE, num |-> n]
NaNText  == [isNaN |-> TRUE, num |-> 0]

\* value / 100 or value / 0.5, line 534.  A typed percentage is a whole number of
\* percent; a typed volumetric value is a whole number of thousandths.
TypedToMoisture(unit, value) ==
    IF unit = "percentage" THEN (value * One) \div 100 ELSE (value * One) \div 500

\* A manual moisture that is written as typed, without the clamp
setCellMoistureUnclamped(typed, limit) ==
    /\ ~crashed /\ DetailsShown
    /\ IF typed.isNaN
       THEN UNCHANGED vars
       ELSE ReplaceSelected(
              [grid[selectedCell.row][selectedCell.col] EXCEPT
                 !.moisture = TypedToMoisture(moistureUnit, typed.num),
                 !.overrideTap = TRUE], limit)

\* manualMoisture onChange, lines 531-546
setCellMoisture(typed, limit) ==
    /\ ~crashed /\ DetailsShown
    /\ IF typed.isNaN
       THEN UNCHANGED vars
       ELSE ReplaceSelected(
              [grid[selectedCell.row][selectedCell.col] EXCEPT
                 !.moisture = Min(One, Max(0, TypedToMoisture(moistureUnit, typed.num))),
                 !.overrideTap = TRUE], limit)

\* A Toggle Tap that opens the tap whatever it was
openTap(limit) ==
    /\ ~crashed /\ DetailsShown
    /\ ReplaceSelected(
         [grid[selectedCell.row][selectedCell.col] EXCEPT
            !.tapStatus = TRUE, !.overrideTap = TRUE], limit)

\* Toggle Tap, lines 552-565
toggleTap(limit) ==
    /\ ~crashed /\ DetailsShown
    /\ ReplaceSelected(
         [grid[selectedCell.row][selectedCell.col] EXCEPT
            !.tapStatus = ~grid[selectedCell.row][selectedCell.col].tapStatus,
            !.overrideTap = TRUE], limit)

\* A Reset Tap Control that closes the tap as well
clearOverrideAndTap(limit) ==
    /\ ~crashed /\ DetailsShown
    /\ ReplaceSelected(
         [grid[selectedCell.row][selectedCell.col] EXCEPT
            !.tapStatus = FALSE, !.overrideTap = FALSE], limit)

\* Reset Tap Control, lines 566-578
clearOverride(limit) ==
    /\ ~crashed /\ DetailsShown
    /\ ReplaceSelected(
         [grid[selectedCell.row][selectedCell.col] EXCEPT !.overrideTap = FALSE], limit)

\* A ParamControl whose max is 1 for every parameter
ParamMaxLoose(key) == One

\* max of ParamControl, line 381, in the units of the parameter
ParamMax(key) ==
    CASE key = "diffusionCoefficient"   -> 1
      [] key = "moistureThreshold"      -> One
      [] OTHER                          -> One \div 2

\* ParamControl's Input onChange, lines 311-316
setParam(key, typed) ==
    /\ ~crashed
    /\ IF ~typed.isNaN /\ typed.num >= 0 /\ typed.num <= ParamMax(key)
       THEN params' = [params EXCEPT ![key] = typed.num]
       ELSE UNCHANGED params
    /\ UNCHANGED <<searchParams, grid, isRunning, timeStep, timeStepSize, selectedCell,
                   moistureHistory, showCellDetails, moistureUnit, crashed, stepsSinceClick>>

\* timeStepSize onChange, lines 394-399: accepted in [0.1, 24]
setTimeStepSize(typed) ==
    /\ ~crashed
    /\ IF ~typed.isNaN /\ typed.num >= 1 /\ typed.num <= 24
       THEN timeStepSize' = typed.num
       ELSE UNCHANGED timeStepSize
    /\ UNCHANGED <<searchParams, grid, isRunning, timeStep, params, selectedCell,
                   moistureHistory, showCellDetails, moistureUnit, crashed, stepsSinceClick>>

\* Select onValueChange, line 452
setMoistureUnit(unit) ==
    /\ ~crashed
    /\ moistureUnit' = unit
    /\ UNCHANGED <<searchParams, grid, isRunning, timeStep, params, timeStepSize,
                   selectedCell, moistureHistory, showCellDetails, crashed, stepsSinceClick>>

\* The URL's query changes while the component stays mounted: initializeGrid is
\* a new callback and the effect of lines 140-142 replaces the grid
navigate(sp, randomValues, limit) ==
    /\ ~crashed
    /\ sp # searchParams
    /\ searchParams' = sp
    /\ stepsSinceClick' = -1
    /\ UNCHANGED <<isRunning, timeStep, params, timeStepSize, selectedCell,
                   showCellDetails, moistureUnit>>
    /\ IF InitThrows(sp)
       THEN /\ crashed' = TRUE
            /\ UNCHANGED <<grid, moistureHistory>>
       ELSE /\ \E rnd \in RandomDraws(sp, randomValues) :
                  grid' = initializeGrid(sp, rnd)
            /\ Rendered(moistureHistory, limit)

-----------------------------------------------------------------------------
(* Inputs of the specifications *)

Half == One \div 2

Search(rows, cols, mode, percent) ==
    [rows |-> rows, cols |-> cols, initialMoisture |-> mode, uniformMoisture |-> percent]

ParamKeys == {"diffusionCoefficient", "evapotranspirationRate", "irrigationRate",
              "moistureThreshold"}

\* What the user types into the manual moisture field: percent, or thousandths
\* of m3/m3 when the unit is volumetric
MoistureInputs(unit) ==
    IF unit = "percentage"
    THEN {Typed(-50), Typed(50), Typed(150), NaNText}
    ELSE {Typed(-250), Typed(250), Typed(750), NaNText}

-----------------------------------------------------------------------------
(* Spec: the simulation driven through its user interface, on grids of at   *)
(* most two cells and on the moisture levels 0, 0.5 and 1.  The history     *)
(* does not act on the grid; here it keeps the MaxHist most recent samples  *)
(* where the code keeps 20 (SpecHist keeps 20), and the moisture unit stays  *)
(* the percentage (SpecHist changes it).                                    *)

MaxTick  == 2    \* steps are taken while timeStep < MaxTick
MaxHist  == 1    \* the samples Spec keeps

SearchChoices ==
    {Search(1, 1, "uniform", 50), Search(1, 2, "random", 50),
     Search(0, 1, "uniform", 50), Search(1, 1, "uniform", 150)}

RandomValues == {0, Half}

ParamInputs(key) ==
    CASE key = "diffusionCoefficient"   -> {Typed(0), Typed(1), Typed(2)}
      [] key = "moistureThreshold"      -> {Typed(Half), Typed(One)}
      [] key = "irrigationRate"         -> {Typed(0), Typed(Half), Typed(One)}
      [] OTHER                          -> {Typed(0), Typed(Half), NaNText}

ParamChoices ==
    [diffusionCoefficient : {1}, evapotranspirationRate : {0, Half},
     irrigationRate : {0, Half}, moistureThreshold : {Half}]

StepSizeInputs == {Typed(0), Typed(1), Typed(25)}

Init == InitWith(SearchChoices, RandomValues, ParamChoices, {1})

Next ==
    \/ StepForward(MaxTick, -1, MaxHist)
    \/ TimerTick(MaxTick, -1, MaxHist)
    \/ toggleSimulation
    \/ resetSimulation(RandomValues, MaxHist)
    \/ \E row \in DOMAIN grid : \E col \in DOMAIN grid[row] :
          handleCellClick(row, col, -1, MaxHist)
    \/ closeCellDetails
    \/ \E typed \in MoistureInputs(moistureUnit) : setCellMoisture(typed, MaxHist)
    \/ toggleTap(MaxHist)
    \/ clearOverride(MaxHist)
    \/ \E key \in ParamKeys : \E typed \in ParamInputs(key) : setParam(key, typed)
    \/ \E typed \in StepSizeInputs : setTimeStepSize(typed)
    \/ \E sp \in SearchChoices : navigate(sp, RandomValues, MaxHist)

Spec == Init /\ [][Next]_vars

-----------------------------------------------------------------------------
(* SpecHist: the history of the selected cell with the code's limit of 20   *)
(* samples, on a 1x2 grid.  Clicks and dialog controls are used while the   *)
(* history is shorter than MaxHandSamples; steps are taken up to tick       *)
(* HistTicks, far enough for the history to fill and turn over.             *)

MaxHandSamples == 2

\* Steps counted after a click: 25
CountCap == HistoryLimit + 5

\* A click at tick MaxHandSamples or earlier is followed by CountCap steps
HistTicks == CountCap + MaxHandSamples

HistSearchChoices == {Search(1, 2, "uniform", 50)}

HistParamChoices ==
    [diffusionCoefficient : {0, 1}, evapotranspirationRate : {Half},
     irrigationRate : {Half}, moistureThreshold : {Half}]

HistoryRoom == Len(moistureHistory) < MaxHandSamples

InitHist == InitWith(HistSearchChoices, {0}, HistParamChoices, {1})

NextHist ==
    \/ StepForward(HistTicks, CountCap, HistoryLimit)
    \/ TimerTick(HistTicks, CountCap, HistoryLimit)
    \/ toggleSimulation
    \/ resetSimulation({0}, HistoryLimit)
    \/ \E row \in DOMAIN grid : \E col \in DOMAIN grid[row] :
          HistoryRoom /\ handleCellClick(row, col, CountCap, HistoryLimit)
    \/ closeCellDetails
    \/ \E typed \in MoistureInputs(moistureUnit) :
          HistoryRoom /\ setCellMoisture(typed, HistoryLimit)
    \/ HistoryRoom /\ toggleTap(HistoryLimit)
    \/ HistoryRoom /\ clearOverride(HistoryLimit)
    \/ \E unit \in {"percentage", "volumetric"} : setMoistureUnit(unit)

SpecHist == InitHist /\ [][NextHist]_vars

-----------------------------------------------------------------------------
(* SpecNbr: grids of every shape up to MaxN x MaxN, uniformly initialised,  *)
(* stepped with diffusion on; a cell is picked by a click.                  *)

MaxN == 3

MaxTickNbr == 2

NbrSearchChoices ==
    {Search(rows, cols, "uniform", 50) : rows \in 1..MaxN, cols \in 1..MaxN}

NbrParamChoices ==
    [diffusionCoefficient : {1}, evapotranspirationRate : {1},
     irrigationRate : {2}, moistureThreshold : {Half}]

InitNbr == InitWith(NbrSearchChoices, {0}, NbrParamChoices, {1})

NextNbr ==
    \/ StepForward(MaxTickNbr, -1, HistoryLimit)
    \/ \E row \in DOMAIN grid : \E col \in DOMAIN grid[row] :
          selectedCell = NoCell /\ handleCellClick(row, col, -1, HistoryLimit)
    \/ closeCellDetails

SpecNbr == InitNbr /\ [][NextNbr]_vars

-----------------------------------------------------------------------------
(* SpecScenario: a single cell stepped under fixed parameters, in units of  *)
(* 0.05: threshold 0.6 or 0.5, irrigation 0.1 or 0, evapotranspiration      *)
(* 0.05, time step 1 or 2 hours.                                            *)

MaxTickScenario == 3

ScenarioSearchChoices == {Search(1, 1, "uniform", 50), Search(1, 1, "uniform", 60)}

ScenarioParamChoices ==
    [diffusionCoefficient : {0, 1}, evapotranspirationRate : {1},
     irrigationRate : {0, 2}, moistureThreshold : {Half, Half + 2}]

InitScenario == InitWith(ScenarioSearchChoices, {0}, ScenarioParamChoices, {1, 2})

NextScenario ==
    \/ StepForward(MaxTickScenario, -1, HistoryLimit)
    \/ TimerTick(MaxTickScenario, -1, HistoryLimit)
    \/ toggleSimulation
    \/ resetSimulation({0}, HistoryLimit)

SpecScenario == InitScenario /\ [][NextScenario]_vars

-----------------------------------------------------------------------------
(* SpecDialog: the three controls of the Cell Details dialog on grids of    *)
(* two, one and no cells, in both moisture units, with steps in between     *)
(* and with changes of the URL's query that replace the grid under a        *)
(* selected cell.  The history keeps MaxHist samples as in Spec.            *)

MaxTickDialog == 2

DialogSearchChoices ==
    {Search(1, 2, "uniform", 50), Search(1, 1, "uniform", 50), Search(0, 1, "uniform", 50)}

DialogParamChoices ==
    [diffusionCoefficient : {1}, evapotranspirationRate : {1},
     irrigationRate : {2}, moistureThreshold : {Half}]

InitDialog == InitWith(DialogSearchChoices, {0}, DialogParamChoices, {1})

NextDialog ==
    \/ StepForward(MaxTickDialog, -1, MaxHist)
    \/ \E row \in DOMAIN grid : \E col \in DOMAIN grid[row] :
          handleCellClick(row, col, -1, MaxHist)
    \/ closeCellDetails
    \/ \E typed \in MoistureInputs(moistureUnit) : setCellMoisture(typed, MaxHist)
    \/ toggleTap(MaxHist)
    \/ clearOverride(MaxHist)
    \/ \E unit \in {"percentage", "volumetric"} : setMoistureUnit(unit)
    \/ \E sp \in DialogSearchChoices : navigate(sp, {0}, MaxHist)

SpecDialog == InitDialog /\ [][NextDialog]_vars

-----------------------------------------------------------------------------
(* SpecParams: the parameter controls and the time-step field on a single   *)
(* cell, with the inputs of Spec, and steps under the values they set.      *)

ParamsSearchChoices == {Search(1, 1, "uniform", 50)}

\* Hours typed into the time-step field: below, inside, at the end of and
\* above the accepted range, and a text that is not a number
ParamsStepSizeInputs == {Typed(0), Typed(2), Typed(24), Typed(25), NaNText}

InitParams == InitWith(ParamsSearchChoices, {0}, ParamChoices, {1})

NextParams ==
    \/ StepForward(MaxTick, -1, MaxHist)
    \/ \E key \in ParamKeys : \E typed \in ParamInputs(key) : setParam(key, typed)
    \/ \E typed \in ParamsStepSizeInputs : setTimeStepSize(typed)

SpecParams == InitParams /\ [][NextParams]_vars

-----------------------------------------------------------------------------
(* SpecHold: one cell whose tap the user holds by hand, with diffusion off  *)
(* and rates of a quarter and a half per hour, so that the cell is filled   *)
(* or dried within four steps.  The user works in the dialog during the     *)
(* first HoldHandTicks ticks after a reset; the simulation then has the     *)
(* ticks left that it needs to fill or dry the cell.  While the simulation  *)
(* runs, the interval timer (lines 191-201) fires every second: the timer's *)
(* step is taken whenever it stays possible.                                *)

HoldHandTicks == 1

Quarter == One \div 4

\* A cell is filled or dried within this many steps at the slowest rate
HoldSteps == One \div Quarter

MaxTickHold == HoldHandTicks + HoldSteps

HoldSearchChoices == {Search(1, 1, "uniform", 50), Search(1, 1, "uniform", 150)}

HoldParamChoices ==
    [diffusionCoefficient   : {0},
     evapotranspirationRate : {Quarter, Half},
     irrigationRate         : {Quarter, Half},
     moistureThreshold      : {0, One}]

InitHold == InitWith(HoldSearchChoices, {0}, HoldParamChoices, {1})

NextHold ==
    \/ StepForward(MaxTickHold, -1, MaxHist)
    \/ TimerTick(MaxTickHold, -1, MaxHist)
    \/ toggleSimulation
    \/ resetSimulation({0}, MaxHist)
    \/ /\ timeStep <= HoldHandTicks
       /\ \/ \E row \in DOMAIN grid : \E col \in DOMAIN grid[row] :
                handleCellClick(row, col, -1, MaxHist)
          \/ \E typed \in MoistureInputs(moistureUnit) : setCellMoisture(typed, MaxHist)
          \/ toggleTap(MaxHist)
          \/ clearOverride(MaxHist)

SpecHold ==
    /\ InitHold
    /\ [][NextHold]_vars
    /\ WF_vars(TimerTick(MaxTickHold, -1, MaxHist))

-----------------------------------------------------------------------------
(* SpecBand: one cell under automatic irrigation with diffusion off, from   *)
(* initial moistures -0.1, 0, 0.5 and 1, thresholds 0, 0.5 and 1, rates 0,  *)
(* 0.1 and 0.15 per hour and steps of one and two hours.                    *)

MaxTickBand == 3

BandSearchChoices ==
    {Search(1, 1, "uniform", percent) : percent \in {-10, 0, 50, 100}}

BandParamChoices ==
    [diffusionCoefficient   : {0},
     evapotranspirationRate : {0, 2, 3},
     irrigationRate         : {0, 2, 3},
     moistureThreshold      : {0, Half, One}]

InitBand == InitWith(BandSearchChoices, {0}, BandParamChoices, {1, 2})

NextBand ==
    \/ StepForward(MaxTickBand, -1, MaxHist)
    \/ TimerTick(MaxTickBand, -1, MaxHist)
    \/ toggleSimulation
    \/ resetSimulation({0}, MaxHist)

SpecBand == InitBand /\ [][NextBand]_vars

-----------------------------------------------------------------------------
(* Vocabulary of the properties *)

\* The positions of grid g
Positions(g) == {pos \in (DOMAIN g) \X (1..25) : pos[2] \in DOMAIN g[pos[1]]}

CellAt(g, pos) == g[pos[1]][pos[2]]

\* The step is the only operation that advances the tick
IsStep == timeStep' = timeStep + 1

\* The moisture the grid was initialised with lies in [0,1]
InitialMoistureInRange ==
    searchParams.initialMoisture = "uniform" =>
        (searchParams.uniformMoisture >= 0 /\ searchParams.uniformMoisture <= 100)

\* m_n - m for the cell at (i,j) of g when it exists, 0 when it does not
DiffTo(g, i, j, m) ==
    IF i \in DOMAIN g /\ j \in DOMAIN g[i] THEN g[i][j].moisture - m ELSE 0

\* The sum over the existing orthogonal neighbours of pos of (m_n - m), on grid g
NeighbourDiffSum(g, pos) ==
    LET m == CellAt(g, pos).moisture
    IN  DiffTo(g, pos[1] - 1, pos[2], m) + DiffTo(g, pos[1] + 1, pos[2], m)
          + DiffTo(g, pos[1], pos[2] - 1, m) + DiffTo(g, pos[1], pos[2] + 1, m)

\* The synchronous update rule: the new moisture of pos from pre-tick values
\* only, given the tap the cell has after the irrigation decision
SynchronousMoisture(g, pos, tap, p, dt) ==
    Clamp(CellAt(g, pos).moisture
            + (IF tap THEN p.irrigationRate ELSE -p.evapotranspirationRate) * dt
            + dt * p.diffusionCoefficient * NeighbourDiffSum(g, pos))

-----------------------------------------------------------------------------
(* C1 *)

\* C1: in a 2-cell grid with unequal moistures and no irrigation or evaporation,
\* one step changes cell A by D*(m_B - m_A) and cell B by D*(m_A - m_B), both
\* from pre-tick values, so the two changes are opposite.
C1_SynchronousUpdate ==
    [][(/\ IsStep
        /\ Cardinality(Positions(grid)) = 2
        /\ params.irrigationRate = 0 /\ params.evapotranspirationRate = 0)
       => LET A  == <<1, 1>>
              B  == CHOOSE pos \in Positions(grid) : pos # A
              mA == CellAt(grid, A).moisture
              mB == CellAt(grid, B).moisture
              deltaA == CellAt(grid', A).moisture - mA
              deltaB == CellAt(grid', B).moisture - mB
          IN  mA # mB =>
                /\ deltaA = timeStepSize * params.diffusionCoefficient * (mB - mA)
                /\ deltaB = timeStepSize * params.diffusionCoefficient * (mA - mB)
                /\ deltaA = -deltaB]_vars

-----------------------------------------------------------------------------
(* C2 *)

\* C2: from a grid initialised with moisture in [0,1], every cell's moisture is in
\* [0,1] in every reachable state.
C2_MoistureInRange ==
    InitialMoistureInRange =>
        \A pos \in Positions(grid) :
            CellAt(grid, pos).moisture >= 0 /\ CellAt(grid, pos).moisture <= One

\* An irrigated, overridden cell stands at the upper clamp after ticks were taken,
\* and another cell has been dried to the lower clamp.
C2_Witness ==
    /\ InitialMoistureInRange /\ timeStep >= 1
    /\ params.irrigationRate > 0 /\ params.evapotranspirationRate > 0
    /\ \E pos \in Positions(grid) :
          /\ CellAt(grid, pos).overrideTap /\ CellAt(grid, pos).tapStatus
          /\ CellAt(grid, pos).moisture = One
    /\ \E pos \in Positions(grid) :
          ~CellAt(grid, pos).tapStatus /\ CellAt(grid, pos).moisture = 0

-----------------------------------------------------------------------------
(* C3 *)

\* C3: one step gives every cell clamp(m + f*dt + dt*D*SUM (m_n - m)) over its
\* existing orthogonal neighbours, m and m_n pre-tick, f = +irrigationRate when the
\* cell's tap is on after the decision and -evapotranspirationRate otherwise.
C3_StepFormula ==
    [][IsStep =>
        \A pos \in Positions(grid) :
            CellAt(grid', pos).moisture =
                SynchronousMoisture(grid, pos, CellAt(grid', pos).tapStatus,
                                    params, timeStepSize)]_vars

-----------------------------------------------------------------------------
(* C4 *)

\* The transition is toggleTap on the cell at pos
IsToggleOf(pos) ==
    /\ selectedCell = [row |-> pos[1], col |-> pos[2]]
    /\ timeStep' = timeStep
    /\ grid' = [grid EXCEPT ![pos[1]][pos[2]] =
                  [@ EXCEPT !.tapStatus = ~@, !.overrideTap = TRUE]]

\* C4: while a cell is under override, a step leaves its override and its tap as
\* they are, whatever its moisture and the threshold; as long as the cell stays
\* under override only toggleTap changes its tap.
C4_OverridePrecedence ==
    [][\A pos \in Positions(grid) :
          CellAt(grid, pos).overrideTap =>
            /\ IsStep =>
                 /\ pos \in Positions(grid')
                 /\ CellAt(grid', pos).overrideTap
                 /\ CellAt(grid', pos).tapStatus = CellAt(grid, pos).tapStatus
            /\ (/\ pos \in Positions(grid')
                /\ CellAt(grid', pos).overrideTap
                /\ CellAt(grid', pos).tapStatus # CellAt(grid, pos).tapStatus)
               => IsToggleOf(pos)]_vars

\* After ticks, a cell under override is dry below the threshold with its tap
\* off, and another is wet at the threshold's level with its tap on: taps the
\* threshold rule would not give.
C4_Witness ==
    /\ timeStep >= 2
    /\ \E pos \in Positions(grid) :
          /\ CellAt(grid, pos).overrideTap /\ ~CellAt(grid, pos).tapStatus
          /\ CellAt(grid, pos).moisture < params.moistureThreshold
    /\ \E pos \in Positions(grid) :
          /\ CellAt(grid, pos).overrideTap /\ CellAt(grid, pos).tapStatus
          /\ CellAt(grid, pos).moisture >= params.moistureThreshold

-----------------------------------------------------------------------------
(* C7 *)

\* C7: the tick is 0 after every initialisation of the grid, and a change of the
\* tick is a step (plus one) or a reset (to 0).
C7_TickCounter ==
    /\ [][searchParams' # searchParams => timeStep' = 0]_vars
    /\ [][timeStep' # timeStep => (timeStep' = timeStep + 1 \/ timeStep' = 0)]_vars

-----------------------------------------------------------------------------
(* C9 *)

\* C9: a step does not modify the pre-tick grid it is given: the array reads
\* afterwards as it did before, and the computation applied to it a second time
\* yields the same post-tick grid.
C9_StepIsPure ==
    [][IsStep =>
        LET first  == updateGridUpdater(grid, params, timeStepSize)
            second == updateGridUpdater(first.prevGrid, params, timeStepSize)
        IN  /\ first.prevGrid = grid
            /\ second.newGrid = first.newGrid]_vars

-----------------------------------------------------------------------------
(* C5 *)

\* C5: selecting a cell other than the observed one clears the history: right
\* after the switch it holds no sample of the cell observed before (it is empty
\* or holds the one sample of the new selection).
C5_SwitchClearsHistory ==
    [][(selectedCell # NoCell /\ selectedCell' # NoCell /\ selectedCell' # selectedCell)
       => \/ moistureHistory' = << >>
          \/ moistureHistory' =
               << [time |-> timeStep',
                   moisture |-> grid'[selectedCell'.row][selectedCell'.col].moisture] >>]_vars

-----------------------------------------------------------------------------
(* C6 *)

\* C6: after a click and then 25 steps with nothing else in between, the history
\* has exactly 20 entries, they carry the 20 most recent ticks in increasing
\* order, and the last one carries the current tick and the observed cell's
\* current moisture; each step adds the sample of its tick behind the most
\* recent earlier ones.
C6_HistoryAfter25Steps ==
    /\ [](stepsSinceClick = 25 =>
            /\ Len(moistureHistory) = 20
            /\ \A k \in 1..20 : moistureHistory[k].time = timeStep - 20 + k
            /\ moistureHistory[20].moisture =
                   grid[selectedCell.row][selectedCell.col].moisture)
    /\ [][(IsStep /\ stepsSinceClick >= 0) =>
            LET old == moistureHistory
                new == moistureHistory'
                kept == Len(new) - 1
            IN  /\ Len(new) = Min(Len(old) + 1, 20)
                /\ new[Len(new)] =
                      [time |-> timeStep',
                       moisture |-> grid'[selectedCell.row][selectedCell.col].moisture]
                /\ \A k \in 1..kept : new[k] = old[Len(old) - kept + k]]_vars

\* 25 steps after a click the history is full, starts 19 ticks back and holds
\* samples of different moistures.
C6_Witness ==
    /\ stepsSinceClick = 25
    /\ Len(moistureHistory) = HistoryLimit
    /\ moistureHistory[1].time = timeStep - 19
    /\ \E k \in 1..19 : moistureHistory[k].moisture # moistureHistory[k + 1].moisture

-----------------------------------------------------------------------------
(* C8 *)

Abs(x) == IF x < 0 THEN -x ELSE x

\* The cells of g at distance one from pos along a row or a column
Adjacent(g, pos) ==
    {q \in Positions(g) : Abs(q[1] - pos[1]) + Abs(q[2] - pos[2]) = 1}

\* Number of grid edges the cell at pos lies on, in a grid with n rows and columns
EdgesTouched(n, pos) ==
    (IF pos[1] \in {1, n} THEN 1 ELSE 0) + (IF pos[2] \in {1, n} THEN 1 ELSE 0)

\* C8: on every tick and for every cell, the cells contributing to the diffusion
\* term are exactly the in-grid cells among up, down, left and right, each once,
\* and the term is D times the sum of their differences to the cell (a missing
\* neighbour adds nothing: no wraparound, no mirrored value); in an N x N grid
\* with N >= 3 that is 2 cells for a corner, 3 for an edge, 4 for an interior cell.
C8_NeighbourContributors ==
    \A pos \in Positions(grid) :
        LET ns == neighbors(grid, pos[1], pos[2])
            contributors == {ns[k] : k \in 1..Len(ns)}
            N == Len(grid)
        IN  /\ contributors = Adjacent(grid, pos)
            /\ Cardinality(contributors) = Len(ns)
            /\ SumDiff(grid, ns, CellAt(grid, pos).moisture, params.diffusionCoefficient)
                 = params.diffusionCoefficient * NeighbourDiffSum(grid, pos)
            /\ (N >= 3 /\ \A i \in DOMAIN grid : Len(grid[i]) = N)
                 => Len(ns) = 4 - EdgesTouched(N, pos)

\* After a step of a 3x3 grid the interior cell is observed; it has 4
\* contributors, a corner 2 and an edge cell 3, and moistures differ.
C8_Witness ==
    /\ timeStep >= 1
    /\ Len(grid) = 3 /\ Len(grid[1]) = 3
    /\ selectedCell = [row |-> 2, col |-> 2]
    /\ Len(neighbors(grid, 2, 2)) = 4
    /\ Len(neighbors(grid, 1, 1)) = 2
    /\ Len(neighbors(grid, 3, 2)) = 3
    /\ grid[2][2].moisture # grid[3][2].moisture

-----------------------------------------------------------------------------
(* C10 *)

\* One cell at 0.5, threshold 0.6, irrigation 0.1, evapotranspiration 0.05,
\* no diffusion, one-hour step
IsScenario ==
    /\ searchParams = Search(1, 1, "uniform", 50)
    /\ params = [diffusionCoefficient |-> 0, evapotranspirationRate |-> 1,
                 irrigationRate |-> 2, moistureThreshold |-> 12]
    /\ timeStepSize = 1

\* C10: in the scenario the first step opens the tap and brings the moisture to
\* 0.6; the second closes it (0.6 is not below 0.6) and brings the moisture to
\* 0.55.
C10_ThresholdScenario ==
    IsScenario =>
        /\ timeStep = 1 => (grid[1][1].tapStatus /\ grid[1][1].moisture = 12)
        /\ timeStep = 2 => (~grid[1][1].tapStatus /\ grid[1][1].moisture = 11)

\* The scenario after its second step
C10_Witness ==
    /\ IsScenario
    /\ timeStep = 2
    /\ ~grid[1][1].tapStatus
    /\ grid[1][1].moisture = 11

-----------------------------------------------------------------------------
(* C11 *)

\* C11: with diffusionCoefficient, evapotranspirationRate and irrigationRate all
\* zero a step leaves the moisture of every cell as it was, for any grid and any
\* threshold; with threshold 0 no cell that is not under override has its tap on
\* after the step.
C11_ZeroRatesKeepMoisture ==
    [][(/\ IsStep
        /\ params.diffusionCoefficient = 0
        /\ params.evapotranspirationRate = 0
        /\ params.irrigationRate = 0)
       => /\ \A pos \in Positions(grid) :
               CellAt(grid', pos).moisture = CellAt(grid, pos).moisture
          /\ params.moistureThreshold = 0 =>
               \A pos \in Positions(grid) :
                   ~CellAt(grid, pos).overrideTap => ~CellAt(grid', pos).tapStatus]_vars

-----------------------------------------------------------------------------
(* C12 *)

\* The position of the selected cell
Selected == <<selectedCell.row, selectedCell.col>>

\* Every cell of the grid but the one at pos is the same before and after
OthersUnchanged(pos) ==
    /\ Positions(grid') = Positions(grid)
    /\ \A q \in Positions(grid) \ {pos} : CellAt(grid', q) = CellAt(grid, q)

\* C12: setting the moisture of a cell of the grid to v writes max(0, min(1, v))
\* as its moisture and puts it under override; its tap, every other cell, the
\* dimensions of the grid and the tick stay as they were.
C12_SetCellMoistureFrame ==
    [][\A typed \in MoistureInputs(moistureUnit) :
          (~typed.isNaN /\ setCellMoisture(typed, MaxHist)) =>
              LET v == TypedToMoisture(moistureUnit, typed.num)
              IN  /\ Selected \in Positions(grid)
                  /\ CellAt(grid', Selected).moisture = Max(0, Min(One, v))
                  /\ CellAt(grid', Selected).overrideTap
                  /\ CellAt(grid', Selected).tapStatus = CellAt(grid, Selected).tapStatus
                  /\ OthersUnchanged(Selected)
                  /\ timeStep' = timeStep]_vars

\* Before any tick one cell of two stands at 1.0 under override, its tap off as
\* initialised, and the other cell is as initialised: 150 % was typed.
C12_Witness ==
    /\ timeStep = 0
    /\ Cardinality(Positions(grid)) = 2
    /\ \E pos \in Positions(grid) :
          /\ CellAt(grid, pos) = [moisture |-> One, tapStatus |-> FALSE, overrideTap |-> TRUE]
          /\ \A q \in Positions(grid) \ {pos} :
                CellAt(grid, q) = [moisture |-> Half, tapStatus |-> FALSE,
                                   overrideTap |-> FALSE]

-----------------------------------------------------------------------------
(* C13 *)

\* C13: toggling the tap of a cell of the grid negates its tap and puts it under
\* override; its moisture, every other cell and the tick stay as they were.  The
\* control is still there afterwards and a second toggle writes the negation of
\* the negated tap, the original one, with the cell still under override.
C13_ToggleTapFrame ==
    [][toggleTap(MaxHist) =>
          /\ Selected \in Positions(grid)
          /\ CellAt(grid', Selected).tapStatus = ~CellAt(grid, Selected).tapStatus
          /\ CellAt(grid', Selected).overrideTap
          /\ CellAt(grid', Selected).moisture = CellAt(grid, Selected).moisture
          /\ OthersUnchanged(Selected)
          /\ timeStep' = timeStep
          /\ (~crashed /\ DetailsShown)'
          /\ (~CellAt(grid', Selected).tapStatus) = CellAt(grid, Selected).tapStatus]_vars

\* Before any tick a cell is under override with its tap on, its moisture as
\* initialised: its tap was toggled an odd number of times.
C13_Witness ==
    /\ timeStep = 0
    /\ \E pos \in Positions(grid) :
          CellAt(grid, pos) = [moisture |-> Half, tapStatus |-> TRUE, overrideTap |-> TRUE]

-----------------------------------------------------------------------------
(* C14 *)

\* C14: clearing the override of a cell of the grid takes the cell out of
\* override and changes nothing else: its tap, its moisture, every other cell
\* and the tick stay as they were.  A step gives a cell that is not under
\* override the tap (its pre-tick moisture < moistureThreshold), so the first
\* step after the clearing recomputes the tap of the cleared cell.
C14_ClearOverrideFrame ==
    [][/\ clearOverride(MaxHist) =>
            /\ Selected \in Positions(grid)
            /\ ~CellAt(grid', Selected).overrideTap
            /\ CellAt(grid', Selected).tapStatus = CellAt(grid, Selected).tapStatus
            /\ CellAt(grid', Selected).moisture = CellAt(grid, Selected).moisture
            /\ OthersUnchanged(Selected)
            /\ timeStep' = timeStep
       /\ (IsStep /\ Selected \in Positions(grid) /\ ~CellAt(grid, Selected).overrideTap) =>
            CellAt(grid', Selected).tapStatus =
                (CellAt(grid, Selected).moisture < params.moistureThreshold)]_vars

\* Before any tick a cell that is not under override has its tap on although
\* its moisture is not below the threshold: the tap was toggled and the
\* override then cleared.
C14_Witness ==
    /\ timeStep = 0
    /\ \E pos \in Positions(grid) :
          /\ ~CellAt(grid, pos).overrideTap
          /\ CellAt(grid, pos).tapStatus
          /\ CellAt(grid, pos).moisture >= params.moistureThreshold

-----------------------------------------------------------------------------
(* C15 *)

\* C15: a step asked for while there is no grid (the grid is empty) is refused
\* and changes nothing: the tick is not advanced and no sample is recorded.
C15_StepNeedsGrid ==
    [][(Len(grid) = 0 /\ searchParams' = searchParams) =>
          /\ ~IsStep
          /\ Len(moistureHistory') <= Len(moistureHistory)]_vars

-----------------------------------------------------------------------------
(* C16 *)

\* C16: initialisation with a uniform moisture outside [0,1] (uniformMoisture
\* outside [0,100] percent) is refused, so the grid initialisation leaves behind
\* never holds a cell with moisture outside [0,1].
C16_InvalidMoistureRejected ==
    (timeStep = 0 /\ searchParams.initialMoisture = "uniform"
       /\ (searchParams.uniformMoisture < 0 \/ searchParams.uniformMoisture > 100))
    => \A pos \in Positions(grid) :
          CellAt(grid, pos).moisture >= 0 /\ CellAt(grid, pos).moisture <= One

-----------------------------------------------------------------------------
(* C17 *)

\* C17: initialisation with rows < 1 or cols < 1 is refused, so every grid the
\* simulation holds has at least one row and every row at least one cell.
C17_InvalidDimensionRejected ==
    /\ Len(grid) >= 1
    /\ \A i \in DOMAIN grid : Len(grid[i]) >= 1

-----------------------------------------------------------------------------
(* C18 *)

\* Some control of the Cell Details dialog acts in this step
OverrideOperation ==
    \/ \E typed \in MoistureInputs(moistureUnit) :
          ~typed.isNaN /\ setCellMoisture(typed, MaxHist)
    \/ toggleTap(MaxHist)
    \/ clearOverride(MaxHist)

\* C18: for a position outside the current grid none of setCellMoisture,
\* toggleTap and clearOverride takes place and the grid stays as it is; an
\* override operation only ever acts on a cell of the current grid, whose
\* positions it leaves as they are.
C18_OverrideOnlyInGrid ==
    [][/\ (selectedCell = NoCell \/ Selected \notin Positions(grid)) => ~OverrideOperation
       /\ OverrideOperation =>
            /\ Selected \in Positions(grid)
            /\ Positions(grid') = Positions(grid)]_vars

\* The dialog is open on a selection that is not a cell of the grid, after the
\* grid was replaced under it; a tick has passed.
C18_Witness ==
    /\ ~crashed /\ showCellDetails
    /\ selectedCell # NoCell /\ Selected \notin Positions(grid)
    /\ timeStep >= 1

-----------------------------------------------------------------------------
(* C19 *)

\* A control of the Cell Details dialog acts, or the observed cell is clicked again
HandOperationOnObserved ==
    \/ \E typed \in MoistureInputs(moistureUnit) :
          ~typed.isNaN /\ setCellMoisture(typed, HistoryLimit)
    \/ toggleTap(HistoryLimit)
    \/ clearOverride(HistoryLimit)
    \/ /\ selectedCell # NoCell
       /\ handleCellClick(selectedCell.row, selectedCell.col, CountCap, HistoryLimit)

\* C19: samples are appended by completed ticks only: setCellMoisture, toggleTap,
\* clearOverride and a click on the cell already observed leave the history as it
\* is, and no two samples of the history carry the same tick.
C19_SamplesOnlyOnTicks ==
    /\ [][HandOperationOnObserved => moistureHistory' = moistureHistory]_vars
    /\ [](\A i, j \in 1..Len(moistureHistory) :
             i < j => moistureHistory[i].time # moistureHistory[j].time)

-----------------------------------------------------------------------------
(* C20 *)

\* C20: a step gives every cell that is not under override the tap
\* (its own pre-tick moisture < moistureThreshold), strictly below and whatever
\* the other cells hold, with the threshold in force at that step.
C20_TapDecision ==
    [][IsStep =>
          \A pos \in Positions(grid) :
              ~CellAt(grid, pos).overrideTap =>
                  /\ pos \in Positions(grid')
                  /\ CellAt(grid', pos).tapStatus =
                        (CellAt(grid, pos).moisture < params.moistureThreshold)]_vars

\* After a step with evapotranspiration and diffusion off, a cell that is not
\* under override sits exactly at the threshold with its tap off, next to a
\* cell below the threshold with its tap on.
C20_Witness ==
    /\ timeStep >= 1
    /\ params.evapotranspirationRate = 0 /\ params.diffusionCoefficient = 0
    /\ params.irrigationRate = 0
    /\ \E pos \in Positions(grid) :
          /\ ~CellAt(grid, pos).overrideTap /\ ~CellAt(grid, pos).tapStatus
          /\ CellAt(grid, pos).moisture = params.moistureThreshold
    /\ \E pos \in Positions(grid) :
          /\ ~CellAt(grid, pos).overrideTap /\ CellAt(grid, pos).tapStatus
          /\ CellAt(grid, pos).moisture < params.moistureThreshold

-----------------------------------------------------------------------------
(* C21 *)

\* C21: the history never holds more than 20 samples; when a sample is appended
\* to a history of 20 the oldest one goes, the other 19 keep their order and the
\* new sample comes last.
C21_HistoryBounded ==
    /\ [](Len(moistureHistory) <= 20)
    /\ [][(/\ Len(moistureHistory) = 20
           /\ moistureHistory' # moistureHistory
           /\ ~resetSimulation({0}, HistoryLimit))
          => /\ Len(moistureHistory') = 20
             /\ \A k \in 1..19 : moistureHistory'[k] = moistureHistory[k + 1]
             /\ moistureHistory'[20] =
                  [time |-> timeStep',
                   moisture |-> CellAt(grid', Selected).moisture]]_vars

\* The history is full and its oldest sample is of tick 3 or later: samples
\* were dropped from its front.
C21_Witness ==
    /\ Len(moistureHistory) = HistoryLimit
    /\ moistureHistory[1].time >= 3
    /\ moistureHistory[HistoryLimit].time = timeStep

-----------------------------------------------------------------------------
(* C22 *)

\* Every tap is off and no cell is under override, the tick is 0, the simulation
\* is not running, and the history holds nothing but a sample of the present grid
FreshlyInitialised ==
    /\ \A pos \in Positions(grid) :
          ~CellAt(grid, pos).tapStatus /\ ~CellAt(grid, pos).overrideTap
    /\ timeStep = 0
    /\ ~isRunning
    /\ \A k \in 1..Len(moistureHistory) :
          /\ k = 1
          /\ Selected \in Positions(grid)
          /\ moistureHistory[k] = [time |-> 0, moisture |-> CellAt(grid, Selected).moisture]

\* The grid is initialised in this step: by Reset, or by the initialise effect
\* after a change of the URL's query
Initialises ==
    \/ resetSimulation(RandomValues, MaxHist)
    \/ \E sp \in SearchChoices : navigate(sp, RandomValues, MaxHist)

\* C22: after the initialisation at start, after every later initialisation and
\* after reset, all taps are off, no cell is under override, the tick is 0, the
\* simulation is not running and the history holds no earlier sample.
C22_FreshAfterInitialisation ==
    /\ FreshlyInitialised
    /\ [][(Initialises /\ ~crashed') => FreshlyInitialised']_vars

-----------------------------------------------------------------------------
(* C23 *)

\* The grid has the same number of rows and of cells in every row before and after
SameDimensions ==
    /\ Len(grid') = Len(grid)
    /\ \A i \in DOMAIN grid : Len(grid'[i]) = Len(grid[i])

\* C23: a step, setCellMoisture, toggleTap and clearOverride leave the number of
\* rows and the number of cells of every row as they are; the dimensions change
\* only when the grid is replaced by an initialisation.
C23_DimensionsFixed ==
    [][/\ (IsStep \/ OverrideOperation) => SameDimensions
       /\ ~SameDimensions => \E sp \in DialogSearchChoices : navigate(sp, {0}, MaxHist)]_vars

\* A two-cell grid after a tick, one of its cells under override: a step and an
\* override operation have acted and the grid has the dimensions it was given.
C23_Witness ==
    /\ timeStep >= 1
    /\ searchParams.rows = 1 /\ searchParams.cols = 2
    /\ Len(grid) = 1 /\ Len(grid[1]) = 2
    /\ \E pos \in Positions(grid) : CellAt(grid, pos).overrideTap

-----------------------------------------------------------------------------
(* C24 *)

\* The largest accepted value of a parameter: 1 for diffusionCoefficient (a whole
\* number here) and moistureThreshold, 0.5 for the two rates
AcceptedMax(key) ==
    IF key = "diffusionCoefficient" THEN 1
    ELSE IF key = "moistureThreshold" THEN One
    ELSE One \div 2

\* What was typed is not a number, or a number outside [lo, hi]
Rejected(typed, lo, hi) == typed.isNaN \/ typed.num < lo \/ typed.num > hi

\* C24: the parameters are always within their ranges, diffusionCoefficient and
\* moistureThreshold in [0,1], the two rates in [0,0.5], the time-step size in
\* [0.1,24] (whole hours here: 1..24); an input that is not a number or is out
\* of range leaves the previous value in place.
C24_ParamsInRange ==
    /\ [](/\ \A key \in ParamKeys : params[key] >= 0 /\ params[key] <= AcceptedMax(key)
          /\ timeStepSize >= 1 /\ timeStepSize <= 24)
    /\ [][/\ \A key \in ParamKeys : \A typed \in ParamInputs(key) :
                (setParam(key, typed) /\ Rejected(typed, 0, AcceptedMax(key)))
                    => params' = params
          /\ \A typed \in ParamsStepSizeInputs :
                (setTimeStepSize(typed) /\ Rejected(typed, 1, 24))
                    => timeStepSize' = timeStepSize]_vars

\* Values that only the controls can have set: diffusion off, the threshold at
\* its upper bound 1, the irrigation rate at its upper bound 0.5.
C24_Witness ==
    /\ params.diffusionCoefficient = 0
    /\ params.moistureThreshold = One
    /\ params.irrigationRate = One \div 2
    /\ timeStepSize = 24
    /\ timeStep >= 1

-----------------------------------------------------------------------------
(* C25 *)

\* The timer can take a step in this state
TimerCanStep == ENABLED TimerTick(MaxTickScenario, -1, HistoryLimit)

\* The Step Forward button can take a step in this state
ButtonCanStep == ENABLED StepForward(MaxTickScenario, -1, HistoryLimit)

\* C25: steps have one driver at a time: the timer steps only while running, the
\* Step Forward button only while paused, and reset stops the simulation; so
\* while paused the timer changes neither the grid nor the tick.
C25_SingleDriver ==
    /\ [](TimerCanStep => isRunning)
    /\ [](ButtonCanStep => ~isRunning)
    /\ [](~(TimerCanStep /\ ButtonCanStep))
    /\ [][resetSimulation({0}, HistoryLimit) => ~isRunning']_vars
    /\ [][~isRunning => ~TimerTick(MaxTickScenario, -1, HistoryLimit)]_vars

\* The simulation runs after a tick, with the timer as the driver of the next
\* step and the button out of use.
C25_Witness ==
    /\ isRunning /\ timeStep >= 1
    /\ TimerCanStep /\ ~ButtonCanStep

-----------------------------------------------------------------------------
(* C26 *)

\* C26: a selected cell is always a cell of the current grid, also after reset
\* and after the grid was initialised anew with other dimensions, and the
\* history effect never reads a position outside the grid (its read of
\* grid[row][col].moisture never throws).
C26_SelectedCellInGrid ==
    /\ selectedCell # NoCell => Selected \in Positions(grid)
    /\ ~crashed

-----------------------------------------------------------------------------
(* C27 *)

\* The cell is held under override with its tap in the given position
Held(pos, tap) ==
    /\ pos \in Positions(grid)
    /\ CellAt(grid, pos).overrideTap
    /\ CellAt(grid, pos).tapStatus = tap

\* C27: with diffusion off and a positive irrigation rate, a cell held under
\* override with the tap on never loses moisture in a step, stays at 1 once it
\* is there and, while the simulation runs, reaches 1 unless the hold or the run
\* is ended, whatever the threshold; with a positive evapotranspiration rate a
\* cell held with the tap off never gains moisture, stays at 0 and reaches 0.
C27_HeldTapSaturates ==
    /\ [][(IsStep /\ params.diffusionCoefficient = 0) =>
            \A pos \in Positions(grid) :
               /\ (Held(pos, TRUE) /\ params.irrigationRate > 0) =>
                     /\ CellAt(grid', pos).moisture >= CellAt(grid, pos).moisture
                     /\ CellAt(grid, pos).moisture = One =>
                           CellAt(grid', pos).moisture = One
               /\ (Held(pos, FALSE) /\ params.evapotranspirationRate > 0) =>
                     /\ CellAt(grid', pos).moisture <= CellAt(grid, pos).moisture
                     /\ CellAt(grid, pos).moisture = 0 =>
                           CellAt(grid', pos).moisture = 0]_vars
    /\ (isRunning /\ Held(<<1, 1>>, TRUE) /\ params.irrigationRate > 0)
          ~> (\/ ~isRunning
              \/ ~Held(<<1, 1>>, TRUE)
              \/ CellAt(grid, <<1, 1>>).moisture = One)
    /\ (isRunning /\ Held(<<1, 1>>, FALSE) /\ params.evapotranspirationRate > 0)
          ~> (\/ ~isRunning
              \/ ~Held(<<1, 1>>, FALSE)
              \/ CellAt(grid, <<1, 1>>).moisture = 0)

-----------------------------------------------------------------------------
(* C28 *)

\* T - ET*dt <= m < T + I*dt
InBand(m, p, dt) ==
    /\ p.moistureThreshold - p.evapotranspirationRate * dt <= m
    /\ m < p.moistureThreshold + p.irrigationRate * dt

\* C28: with diffusion off, a step takes a cell that is not under override and
\* whose moisture is in the band T - ET*dt <= m < T + I*dt to a moisture in the
\* same band.
C28_BandKept ==
    [][(IsStep /\ params.diffusionCoefficient = 0) =>
          \A pos \in Positions(grid) :
             (/\ ~CellAt(grid, pos).overrideTap
              /\ InBand(CellAt(grid, pos).moisture, params, timeStepSize))
                => InBand(CellAt(grid', pos).moisture, params, timeStepSize)]_vars

=============================================================================
